---- MODULE Spec2Model ----
(***************************************************************************)
(* Model of the two content-retrieval tools of the repository:             *)
(*   VersatileFileReadTool     (versatile_file_read_tool.py)               *)
(*   VersatileScrapeWebsiteTool (versatile_scrape_website_tool.py)         *)
(*                                                                         *)
(* A Python str is a sequence of characters; a character is an integer.    *)
(* Positive integers are ordinary (non-whitespace, non-dot) characters,    *)
(* and the three characters the code itself treats specially are named     *)
(* below.  An Optional[T] is a sequence of at most one element.            *)
(***************************************************************************)
EXTENDS Integers, Sequences, FiniteSets, TLC

-----------------------------------------------------------------------------
(* Bounds of the model *)

\* Longest text, in blocks of 1000 characters.
MaxBlocks == 5

\* Largest budget handed to the pure strategies, in blocks of 1000 characters.
MaxBudgetBlocks == 4

-----------------------------------------------------------------------------
(* Characters and Optional values *)

Space == 0

Newline == 0 - 1

Dot == 0 - 2

None == << >>

Some(x) == << x >>

IsSome(o) == Len(o) = 1

Min(a, b) == IF a <= b THEN a ELSE b

Max(a, b) == IF a >= b THEN a ELSE b

-----------------------------------------------------------------------------
(* Program constants *)

_TOOL_FILE_RANDOM_CHUNKS_BLOCK_SIZE == 1000

_TOOL_FILE_RANDOM_CHUNKS_MIN_MAX_CHARS == 3000

_TOOL_FILE_SUMMARY_MODE_INTERNAL_MAX_CHARS == 34000

_TOOL_FILE_SUMMARY_MODE_TARGET_LENGTH == 6000

_TOOL_FILE_SUMMARY_MIN_VALID_LENGTH == 100

-----------------------------------------------------------------------------
(* str operations used by the code *)

\* s[:n] of Python: the first n characters, or all but the last -n when n < 0.
PySlice(s, n) ==
    IF n >= 0 THEN SubSeq(s, 1, Min(n, Len(s)))
              ELSE SubSeq(s, 1, Max(Len(s) + n, 0))

IsWhitespace(c) == c \in {Space, Newline}

\* str.strip(): from the first to the last character that is no whitespace.
Strip(s) ==
    IF \A i \in 1..Len(s) : IsWhitespace(s[i]) THEN << >>
    ELSE LET first == CHOOSE i \in 1..Len(s) :
                        /\ ~IsWhitespace(s[i])
                        /\ \A j \in 1..(i - 1) : IsWhitespace(s[j])
             drop == CHOOSE k \in 0..(Len(s) - 1) :
                        /\ ~IsWhitespace(s[Len(s) - k])
                        /\ \A j \in (Len(s) - k + 1)..Len(s) : IsWhitespace(s[j])
         IN SubSeq(s, first, Len(s) - drop)

\* The "..." literal that joins the blocks and marks an omission.
Ellipsis == << Dot, Dot, Dot >>

\* sep.join(parts)
RECURSIVE Join(_, _)
Join(sep, parts) ==
    IF parts = << >> THEN << >>
    ELSE IF Len(parts) = 1 THEN parts[1]
    ELSE parts[1] \o sep \o Join(sep, Tail(parts))

\* sorted(list(S)) for a set of integers
RECURSIVE Sorted(_)
Sorted(S) ==
    IF S = {} THEN << >>
    ELSE LET m == CHOOSE x \in S : \A y \in S : x <= y
         IN << m >> \o Sorted(S \ {m})

-----------------------------------------------------------------------------
(* Head strategy *)

_retrieve_head_content_cut_short(full_content, max_chars) ==
    IF Len(full_content) <= max_chars THEN full_content
    ELSE PySlice(full_content, max_chars - 1)

_retrieve_head_content(full_content, max_chars) ==
    IF Len(full_content) <= max_chars THEN full_content
    ELSE PySlice(full_content, max_chars)

-----------------------------------------------------------------------------
(* Random-chunks strategy.  Block indices are 0-based as in the code.     *)

\* math.floor(eff_max_chars / block_size), raised to 1 for a positive budget
num_blocks_select(eff_max_chars) ==
    LET n == eff_max_chars \div _TOOL_FILE_RANDOM_CHUNKS_BLOCK_SIZE
    IN IF n = 0 /\ eff_max_chars > 0 THEN 1 ELSE n

\* [full_content[i : i + block_size] for i in range(0, len, block_size)]
all_blocks(full_content) ==
    LET bs == _TOOL_FILE_RANDOM_CHUNKS_BLOCK_SIZE
        n  == (Len(full_content) + bs - 1) \div bs
    IN [k \in 1..n |->
            SubSeq(full_content, (k - 1) * bs + 1, Min(k * bs, Len(full_content)))]

\* The indices put in selected_indices before the shuffle: first and last.
fixed_indices_without_last(full_content, eff_max_chars) ==
    IF num_blocks_select(eff_max_chars) > 0 THEN {0} ELSE {}

fixed_indices(full_content, eff_max_chars) ==
    LET nb == Len(all_blocks(full_content))
        want == num_blocks_select(eff_max_chars)
    IN (IF want > 0 THEN {0} ELSE {})
        \cup (IF want > 1 /\ nb > 1 /\ (nb - 1) # 0 THEN {nb - 1} ELSE {})

chunks_path_strict(full_content, eff_max_chars) ==
    IF full_content = << >> THEN "empty"
    ELSE IF Len(full_content) < eff_max_chars THEN "fits"
    ELSE IF Len(all_blocks(full_content)) <= num_blocks_select(eff_max_chars)
        THEN "all_blocks"
    ELSE "selection"

\* Which return statement of _retrieve_random_chunks_content is taken.
chunks_path(full_content, eff_max_chars) ==
    IF full_content = << >> THEN "empty"
    ELSE IF Len(full_content) <= eff_max_chars THEN "fits"
    ELSE IF Len(all_blocks(full_content)) <= num_blocks_select(eff_max_chars)
        THEN "all_blocks"
    ELSE "selection"

\* The outcomes of random.shuffle(middle_indices) followed by taking the first
\* min(needed_middle, len(middle_indices)) entries: every subset of that size.
middle_choices(full_content, eff_max_chars) ==
    LET nb == Len(all_blocks(full_content))
        needed_middle == num_blocks_select(eff_max_chars)
                            - Cardinality(fixed_indices(full_content, eff_max_chars))
        middle_indices == 1..(nb - 2)
    IN IF chunks_path(full_content, eff_max_chars) = "selection"
            /\ needed_middle > 0 /\ middle_indices # {}
        THEN {M \in SUBSET middle_indices :
                Cardinality(M) = Min(needed_middle, Cardinality(middle_indices))}
        ELSE {{}}

selected_indices(full_content, eff_max_chars, middle) ==
    fixed_indices(full_content, eff_max_chars) \cup middle

_retrieve_random_chunks_content_without_marker(full_content, eff_max_chars, middle) ==
    LET blocks == all_blocks(full_content)
        path == chunks_path(full_content, eff_max_chars)
        order == Sorted(selected_indices(full_content, eff_max_chars, middle))
        result_parts == [k \in 1..Len(order) |-> blocks[order[k] + 1]]
        final_str == Join(Ellipsis, result_parts)
    IN CASE path = "empty" -> << >>
         [] path = "fits" -> full_content
         [] path = "all_blocks" -> PySlice(Join(Ellipsis, blocks), eff_max_chars)
         [] OTHER -> PySlice(final_str, eff_max_chars)

_retrieve_random_chunks_content_untruncated(full_content, eff_max_chars, middle) ==
    LET blocks == all_blocks(full_content)
        want == num_blocks_select(eff_max_chars)
        path == chunks_path(full_content, eff_max_chars)
        order == Sorted(selected_indices(full_content, eff_max_chars, middle))
        result_parts == [k \in 1..Len(order) |-> blocks[order[k] + 1]]
        joined == Join(Ellipsis, result_parts)
    IN CASE path = "empty" -> << >>
         [] path = "fits" -> full_content
         [] path = "all_blocks" -> PySlice(Join(Ellipsis, blocks), eff_max_chars)
         [] OTHER -> IF Len(blocks) > want /\ want > 0
                        THEN joined \o Ellipsis ELSE joined

_retrieve_random_chunks_content(full_content, eff_max_chars, middle) ==
    LET blocks == all_blocks(full_content)
        want == num_blocks_select(eff_max_chars)
        path == chunks_path(full_content, eff_max_chars)
        order == Sorted(selected_indices(full_content, eff_max_chars, middle))
        result_parts == [k \in 1..Len(order) |-> blocks[order[k] + 1]]
        joined == Join(Ellipsis, result_parts)
        final_str == IF Len(blocks) > want /\ want > 0
                        THEN joined \o Ellipsis ELSE joined
    IN CASE path = "empty" -> << >>
         [] path = "fits" -> full_content
         [] path = "all_blocks" -> PySlice(Join(Ellipsis, blocks), eff_max_chars)
         [] OTHER -> PySlice(final_str, eff_max_chars)

-----------------------------------------------------------------------------
(* Texts the model draws from *)

\* n ordinary characters, each distinct: character i is i.
PlainText(n) == [i \in 1..n |-> i]

\* n whitespace characters.
BlankText(n) == [i \in 1..n |-> Space]

TextLens ==
    {0, 1} \cup {k * _TOOL_FILE_RANDOM_CHUNKS_BLOCK_SIZE + d :
                    k \in 1..MaxBlocks, d \in {0 - 1, 0, 1}}

Budgets ==
    {b \in {k * _TOOL_FILE_RANDOM_CHUNKS_BLOCK_SIZE + d :
                k \in 0..MaxBudgetBlocks, d \in {0 - 1, 0, 1, 3}} : b >= 0}

-----------------------------------------------------------------------------
(* Exceptions, results and messages *)

\* A message is a sequence of parts: a word of a literal, or a str value
\* formatted into it.
W(word) == [w |-> word, s |-> << >>]

S(chars) == [w |-> "", s |-> chars]

Words(ws) == [i \in 1..Len(ws) |-> W(ws[i])]

\* An exception: its class and str(e).
Exc(type, msg) == [type |-> type, msg |-> msg]

\* The classes an exception class is an instance of (isinstance).
Bases(type) ==
    CASE type = "FileNotFoundError" -> {"FileNotFoundError", "OSError", "Exception"}
      [] type = "PermissionError" -> {"PermissionError", "OSError", "Exception"}
      [] type = "IsADirectoryError" -> {"IsADirectoryError", "OSError", "Exception"}
      [] type = "RequestException" -> {"RequestException", "OSError", "Exception"}
      [] type = "ValueError" -> {"ValueError", "Exception"}
      [] OTHER -> {type, "Exception"}

IsInstance(e, cls) == cls \in Bases(e.type)

\* What a call does: return a str or raise.
Return(v) == [exc |-> None, value |-> v]

Raise(e) == [exc |-> Some(e), value |-> << >>]

Raised(r) == IsSome(r.exc)

\* The source field of an envelope: a path/URL, or a literal placeholder.
SourceOf(p) == [literal |-> "", path |-> p]

Placeholder(w) == [literal |-> w, path |-> << >>]

\* VersatileFileReadToolOutput / VersatileScraperToolOutput
Envelope(content, error_message, source, mode) ==
    [content |-> content, error_message |-> error_message,
     source |-> source, retrieval_mode_used |-> mode]

-----------------------------------------------------------------------------
(* Line-range extraction of the file tool (Full mode) *)

\* The lines a text file yields when iterated, each with its line ending.
Lines(s) ==
    LET nl == {i \in 1..Len(s) : s[i] = Newline}
        starts == Sorted({1} \cup {i + 1 : i \in {j \in nl : j < Len(s)}})
        endOf(b) == IF \E i \in nl : i >= b
                        THEN CHOOSE i \in nl : i >= b /\ \A j \in nl : j >= b => i <= j
                        ELSE Len(s)
    IN IF s = << >> THEN << >>
       ELSE [k \in 1..Len(starts) |-> SubSeq(s, starts[k], endOf(starts[k]))]

RECURSIVE read_lines_taking_one_more(_, _, _, _, _)
read_lines_taking_one_more(lines, i, start_idx, line_count, st) ==
    IF i >= Len(lines) THEN st
    ELSE IF i >= start_idx
        THEN IF line_count = None \/ Len(st.buf) <= line_count[1]
                THEN read_lines_taking_one_more(lines, i + 1, start_idx, line_count,
                        [buf |-> Append(st.buf, lines[i + 1]), cur |-> i + 1])
                ELSE [st EXCEPT !.cur = i + 1]
        ELSE read_lines_taking_one_more(lines, i + 1, start_idx, line_count,
                        [st EXCEPT !.cur = i + 1])

\* The for loop over enumerate(f): st = [buf, cur] is (lines_buffer,
\* current_line_num) before line i (0-based) is read.
RECURSIVE read_lines(_, _, _, _, _)
read_lines(lines, i, start_idx, line_count, st) ==
    IF i >= Len(lines) THEN st
    ELSE IF i >= start_idx
        THEN IF line_count = None \/ Len(st.buf) < line_count[1]
                THEN read_lines(lines, i + 1, start_idx, line_count,
                        [buf |-> Append(st.buf, lines[i + 1]), cur |-> i + 1])
                ELSE [st EXCEPT !.cur = i + 1]
        ELSE read_lines(lines, i + 1, start_idx, line_count,
                        [st EXCEPT !.cur = i + 1])

\* The body of the with block, for a file that opened and holds `content`.
extract_lines(content, start_line, line_count) ==
    LET st == read_lines(Lines(content), 0, start_line - 1, line_count,
                         [buf |-> << >>, cur |-> 0])
    IN IF start_line = 1 /\ line_count = None THEN Return(content)
       ELSE IF st.buf = << >> /\ start_line > st.cur /\ st.cur > 0
            THEN Raise(Exc("ValueError",
                    Words(<< "Start", "line", "exceeds", "the", "number", "of",
                             "lines", "in", "the", "file." >>)))
       ELSE IF st.buf = << >> /\ start_line > 0 /\ st.cur = 0
            THEN IF start_line = 1 THEN Return(<< >>)
                 ELSE Raise(Exc("ValueError",
                    Words(<< "File", "is", "empty", "and", "start", "line", "is",
                             "greater", "than", "1." >>)))
       ELSE Return(Join(<< >>, st.buf))

\* The except clauses of _retrieve_full_content: a ValueError passes, every
\* other exception is wrapped in a RuntimeError.
full_content_except(file_path, r) ==
    IF ~Raised(r) \/ IsInstance(r.exc[1], "ValueError") THEN r
    ELSE Raise(Exc("RuntimeError",
            Words(<< "Error", "reading", "lines", "from", "file" >>)
                \o << S(file_path), W(":") >> \o r.exc[1].msg))

\* opened: what open(file_path) and reading it give, Return(text) or Raise(e).
_retrieve_full_content(file_path, opened, start_line, line_count) ==
    full_content_except(file_path,
        IF Raised(opened) THEN opened
        ELSE extract_lines(opened.value, start_line, line_count))

-----------------------------------------------------------------------------
(* Configuration *)

Modes == {"full", "head", "random_chunks", "summarize"}

\* The pydantic field constraints: ge=1 on the file tool's max_chars,
\* start_line and line_count; none on the web tool's max_chars.
fields_valid(t, mc, sl, lc) ==
    t = "file" =>
        /\ (IsSome(mc) => mc[1] >= 1)
        /\ sl >= 1
        /\ (IsSome(lc) => lc[1] >= 1)

init_raises_ignoring_llm(mode, mc, has_llm) ==
    mode \in {"head", "random_chunks"} /\ mc = None

\* The mode checks of _init_tool_and_dynamic_description: TRUE when it raises.
init_raises(mode, mc, has_llm) ==
    \/ mode = "summarize" /\ ~has_llm
    \/ mode \in {"head", "random_chunks"} /\ mc = None

eff_max_chars_without_floor(mode, mc) ==
    CASE mode = "summarize" ->
            Some(IF IsSome(mc) THEN mc[1]
                 ELSE _TOOL_FILE_SUMMARY_MODE_INTERNAL_MAX_CHARS)
      [] mode = "head" -> mc
      [] mode = "random_chunks" -> mc
      [] OTHER -> None

\* _eff_max_chars_for_retrieval as the validator sets it.
eff_max_chars(mode, mc) ==
    CASE mode = "summarize" ->
            Some(Max(IF IsSome(mc) THEN mc[1]
                     ELSE _TOOL_FILE_SUMMARY_MODE_INTERNAL_MAX_CHARS,
                     _TOOL_FILE_RANDOM_CHUNKS_MIN_MAX_CHARS))
      [] mode = "head" -> mc
      [] mode = "random_chunks" ->
            Some(Max(mc[1], _TOOL_FILE_RANDOM_CHUNKS_MIN_MAX_CHARS))
      [] OTHER -> None

-----------------------------------------------------------------------------
(* The except clauses of _run *)

\* The handlers in the order of the except clauses: the class caught and the
\* literal that starts the error message.
run_handlers_without_catch_all(t) ==
    IF t = "file"
    THEN << [cls |-> "FileNotFoundError",
             says |-> << "File", "not", "found", "at", "path:" >>, detail |-> FALSE],
            [cls |-> "PermissionError",
             says |-> << "Permission", "denied", "for", "file:" >>, detail |-> FALSE],
            [cls |-> "ValueError",
             says |-> << "Processing", "error", "for" >>, detail |-> TRUE] >>
    ELSE << [cls |-> "RequestException",
             says |-> << "HTTP", "error", "scraping" >>, detail |-> TRUE],
            [cls |-> "ValueError",
             says |-> << "Processing", "error", "for" >>, detail |-> TRUE] >>

run_handlers(t) ==
    IF t = "file"
    THEN << [cls |-> "FileNotFoundError",
             says |-> << "File", "not", "found", "at", "path:" >>, detail |-> FALSE],
            [cls |-> "PermissionError",
             says |-> << "Permission", "denied", "for", "file:" >>, detail |-> FALSE],
            [cls |-> "ValueError",
             says |-> << "Processing", "error", "for" >>, detail |-> TRUE],
            [cls |-> "Exception",
             says |-> << "Unexpected", "error", "processing" >>, detail |-> TRUE] >>
    ELSE << [cls |-> "RequestException",
             says |-> << "HTTP", "error", "scraping" >>, detail |-> TRUE],
            [cls |-> "ValueError",
             says |-> << "Processing", "error", "for" >>, detail |-> TRUE],
            [cls |-> "Exception",
             says |-> << "Unexpected", "error", "processing" >>, detail |-> TRUE] >>

\* The error_message of the first except clause that catches e, or None when
\* no clause does and e leaves _run.
caught_message(t, where, e) ==
    LET hs == run_handlers(t)
        hits == {k \in 1..Len(hs) : IsInstance(e, hs[k].cls)}
    IN IF hits = {} THEN None
       ELSE LET h == hs[CHOOSE k \in hits : \A j \in hits : k <= j]
            IN Some(IF h.detail
                    THEN Words(h.says) \o << S(where), W(":") >> \o e.msg
                    ELSE Words(h.says) \o << S(where) >>)

run_outcome_with_empty_content(t, mode, where, r) ==
    IF ~Raised(r)
    THEN [pc |-> "returned", fault |-> None,
          output |-> Some(Envelope(Some(r.value), None, SourceOf(where), mode))]
    ELSE LET m == caught_message(t, where, r.exc[1])
         IN IF m = None
            THEN [pc |-> "raised", fault |-> r.exc, output |-> None]
            ELSE [pc |-> "returned", fault |-> r.exc,
                  output |-> Some(Envelope(Some(<< >>), m, SourceOf(where), mode))]

\* How _run ends once the try block returned r.value or raised r.exc:
\* the envelope returned, or the exception that leaves it.
run_outcome(t, mode, where, r) ==
    IF ~Raised(r)
    THEN [pc |-> "returned", fault |-> None,
          output |-> Some(Envelope(Some(r.value), None, SourceOf(where), mode))]
    ELSE LET m == caught_message(t, where, r.exc[1])
         IN IF m = None
            THEN [pc |-> "raised", fault |-> r.exc, output |-> None]
            ELSE [pc |-> "returned", fault |-> r.exc,
                  output |-> Some(Envelope(None, m, SourceOf(where), mode))]

-----------------------------------------------------------------------------
(* Summarize strategy *)

\* range(3): the attempts of the retry loop
attempts == 3

\* The characters of the literals the code puts into str values; none of them
\* is a character of a text the model draws.
Literal(tag, n) == [i \in 1..n |-> tag * 1000 + i]

\* DEFAULT_FILE_SUMMARY_PROMPT_TEMPLATE / DEFAULT_SUMMARY_PROMPT_TEMPLATE
summary_prompt_template(t) ==
    IF t = "file" THEN Literal(101, 183) ELSE Literal(102, 178)

\* "No text content found on the website after cleaning."
no_text_content == Literal(103, 52)

summary_prompt_without_strip(t, has_llm, limit, full_content, middle) ==
    IF t = "file" /\ (~has_llm \/ limit = None)
    THEN Raise(Exc("AssertionError",
            Words(<< "LLM", "or", "context", "limit", "not", "set", "for",
                     "summarize." >>)))
    ELSE LET context == _retrieve_random_chunks_content(full_content, limit[1], middle)
         IN IF context = << >>
            THEN Raise(Exc("ValueError",
                    Words(<< "No", "content", "extracted", "from",
                             IF t = "file" THEN "file" ELSE "website",
                             "to", "summarize." >>)))
            ELSE Return(IF t = "file"
                        THEN summary_prompt_template(t) \o context
                        ELSE summary_prompt_template(t) \o << Newline >> \o context)

\* The part of _retrieve_summarized_content before the retry loop:
\* the prompt, or the exception raised.
summary_prompt(t, has_llm, limit, full_content, middle) ==
    IF t = "file" /\ (~has_llm \/ limit = None)
    THEN Raise(Exc("AssertionError",
            Words(<< "LLM", "or", "context", "limit", "not", "set", "for",
                     "summarize." >>)))
    ELSE LET context == _retrieve_random_chunks_content(full_content, limit[1], middle)
         IN IF Strip(context) = << >>
            THEN Raise(Exc("ValueError",
                    Words(<< "No", "content", "extracted", "from",
                             IF t = "file" THEN "file" ELSE "website",
                             "to", "summarize." >>)))
            ELSE Return(IF t = "file"
                        THEN summary_prompt_template(t) \o context
                        ELSE summary_prompt_template(t) \o << Newline >> \o context)

\* What llm.call(prompt) may do.
LlmRaises(e) == [kind |-> "raise", body |-> << >>, exc |-> Some(e)]

\* A response that is no str; body is str(llm_response).
LlmNonStr(rendered) == [kind |-> "nonstr", body |-> rendered, exc |-> None]

LlmStr(body) == [kind |-> "str", body |-> body, exc |-> None]

\* One pass of the loop body on response resp: the summary returned, or the
\* diagnostics (raw_summary, last_exception) kept for the next pass.
attempt_body_keeping_most_recent(resp, raw, last) ==
    IF resp.kind = "str"
    THEN LET summary == Strip(resp.body)
         IN IF Len(summary) >= _TOOL_FILE_SUMMARY_MIN_VALID_LENGTH
            THEN [done |-> TRUE,
                  summary |-> PySlice(summary, _TOOL_FILE_SUMMARY_MODE_TARGET_LENGTH),
                  raw |-> raw, last |-> last]
            ELSE [done |-> FALSE, summary |-> << >>, raw |-> summary, last |-> None]
    ELSE IF resp.kind = "nonstr"
        THEN [done |-> FALSE, summary |-> << >>, raw |-> resp.body, last |-> None]
        ELSE [done |-> FALSE, summary |-> << >>, raw |-> << >>, last |-> resp.exc]

attempt_body_ignoring_valid(resp, raw, last) ==
    IF resp.kind = "str"
    THEN [done |-> FALSE, summary |-> << >>, raw |-> Strip(resp.body), last |-> last]
    ELSE IF resp.kind = "nonstr"
        THEN [done |-> FALSE, summary |-> << >>, raw |-> resp.body, last |-> last]
        ELSE [done |-> FALSE, summary |-> << >>, raw |-> raw, last |-> resp.exc]

attempt_body_untrimmed(resp, raw, last) ==
    IF resp.kind = "str"
    THEN LET summary == resp.body
         IN IF Len(summary) >= _TOOL_FILE_SUMMARY_MIN_VALID_LENGTH
            THEN [done |-> TRUE,
                  summary |-> PySlice(summary, _TOOL_FILE_SUMMARY_MODE_TARGET_LENGTH),
                  raw |-> raw, last |-> last]
            ELSE [done |-> FALSE, summary |-> << >>, raw |-> summary, last |-> last]
    ELSE IF resp.kind = "nonstr"
        THEN [done |-> FALSE, summary |-> << >>, raw |-> resp.body, last |-> last]
        ELSE [done |-> FALSE, summary |-> << >>, raw |-> raw, last |-> resp.exc]

attempt_body(resp, raw, last) ==
    IF resp.kind = "str"
    THEN LET summary == Strip(resp.body)
         IN IF Len(summary) >= _TOOL_FILE_SUMMARY_MIN_VALID_LENGTH
            THEN [done |-> TRUE,
                  summary |-> PySlice(summary, _TOOL_FILE_SUMMARY_MODE_TARGET_LENGTH),
                  raw |-> raw, last |-> last]
            ELSE [done |-> FALSE, summary |-> << >>, raw |-> summary, last |-> last]
    ELSE IF resp.kind = "nonstr"
        THEN [done |-> FALSE, summary |-> << >>, raw |-> resp.body, last |-> last]
        ELSE [done |-> FALSE, summary |-> << >>, raw |-> raw, last |-> resp.exc]

\* The ValueError raised after the loop.
summary_error(t, raw, last) ==
    LET failed == Words(<< "LLM", "failed", "to", "generate", "a", "valid",
                           "summary", "after", "3", "attempts." >>)
        raw_part(says) == Words(says) \o << W("'"), S(PySlice(raw, 200)), W("...'") >>
        last_part == IF IsSome(last)
                     THEN Words(<< "Last", "exception:", last[1].type, "-" >>)
                            \o last[1].msg
                     ELSE << >>
    IN Exc("ValueError",
        IF t = "file"
        THEN failed
             \o (IF raw # << >>
                 THEN raw_part(<< "Last", "raw", "output", "(may", "be", "truncated):" >>)
                 ELSE << >>)
             \o last_part
        ELSE failed
             \o raw_part(<< "Last", "raw", "output", "(truncated):" >>)
             \o last_part)

\* Whether the loop goes round again after the pass numbered n (0-based).
loop_continues_once_more(n) == n + 1 < attempts + 1

loop_continues(n) == n + 1 < attempts

-----------------------------------------------------------------------------
(* Inputs of the tools *)

\* Lines of the longest line-structured file.
MaxLines == 3

\* n lines, line j being one character and its line ending; the last line
\* has no line ending when terminated is FALSE.
LineText(n, terminated) ==
    LET s == [i \in 1..(2 * n) |-> IF i % 2 = 1 THEN 200 + (i + 1) \div 2 ELSE Newline]
    IN IF terminated THEN s ELSE SubSeq(s, 1, 2 * n - 1)

\* Lengths of the texts a source holds: short ones and ones around the block
\* boundaries from the budget floor of 3 blocks on.
SourceLens ==
    {0, 1} \cup {k * _TOOL_FILE_RANDOM_CHUNKS_BLOCK_SIZE + d :
                    k \in 3..MaxBlocks, d \in {0 - 1, 0, 1}}

FileTexts ==
    {PlainText(n) : n \in SourceLens}
        \cup {BlankText(1), BlankText(_TOOL_FILE_RANDOM_CHUNKS_MIN_MAX_CHARS + 1)}
        \cup {LineText(n, b) : n \in 1..MaxLines, b \in BOOLEAN}

\* text_content after cleaning: no leading or trailing whitespace.
WebTexts == {PlainText(n) : n \in SourceLens}

\* What open(eff_fp) followed by f.read() does.  str(e) of an OSError ends
\* with the file name, which is left out here.
FileOutcomes ==
    {Return(x) : x \in FileTexts}
        \cup {Raise(Exc("FileNotFoundError",
                Words(<< "[Errno", "2]", "No", "such", "file", "or", "directory" >>))),
              Raise(Exc("PermissionError",
                Words(<< "[Errno", "13]", "Permission", "denied" >>))),
              Raise(Exc("IsADirectoryError",
                Words(<< "[Errno", "21]", "Is", "a", "directory" >>)))}

\* What requests.get, raise_for_status, BeautifulSoup and the cleaning do.
WebOutcomes ==
    {Return(x) : x \in WebTexts}
        \cup {Raise(Exc("RequestException", Words(<< "404", "Client", "Error" >>))),
              Raise(Exc("TypeError", Words(<< "unexpected", "markup" >>)))}

LlmLens == {50, 150, _TOOL_FILE_SUMMARY_MODE_TARGET_LENGTH + 1}

\* What llm.call(prompt) does: raise, return a non-str (None here), or return
\* a str with whitespace around n ordinary characters.
LlmResponses ==
    {LlmRaises(Exc("RuntimeError", Words(<< "rate", "limit" >>))),
     LlmNonStr(Literal(104, 201))}
        \cup {LlmStr(<< Space >> \o PlainText(n) \o << Newline >>) : n \in LlmLens}

APath == << 7, 8 >>

\* file_path handed to _run: absent, empty, blank, or a path with spaces around.
FileArgs == {None, Some(<< >>), Some(<< Space >>), Some(<< Space >> \o APath \o << Space >>)}

\* website_url handed to _run
WebArgs == {<< >>, << Space >>, APath}

\* max_chars handed to the constructor
ConfigBudgets ==
    {None} \cup {Some(b) : b \in {0 - 1, 0, 1}
                    \cup {k * _TOOL_FILE_RANDOM_CHUNKS_BLOCK_SIZE : k \in 2..MaxBudgetBlocks}}

Config(mode, mc, has_llm, fp, sl, lc) ==
    [retrieval_mode |-> mode, max_chars |-> mc, llm |-> has_llm,
     file_path |-> fp, start_line |-> sl, line_count |-> lc]

\* Constructor arguments: every mode with every budget, with and without a
\* generator; for the file tool also line ranges in full mode and a default
\* path in every mode.
ConfigInputs(t) ==
    {Config(m, mc, g, None, 1, None) : m \in Modes, mc \in ConfigBudgets, g \in BOOLEAN}
        \cup (IF t = "file"
              THEN {Config("full", None, FALSE, None, sl, lc) :
                        sl \in 0..(MaxLines + 1),
                        lc \in {None} \cup {Some(c) : c \in 0..MaxLines}}
                   \cup {Config(m, Some(_TOOL_FILE_RANDOM_CHUNKS_MIN_MAX_CHARS), TRUE,
                                Some(<< 9 >>), 1, None) : m \in Modes}
              ELSE {})

-----------------------------------------------------------------------------
(* State *)

VARIABLES
    pc,             \* "new", "config_error", "ready", "acquire", "llm",
                    \* "returned", or "raised" when an exception left _run
    tool,           \* "file" or "web"; "none" before construction
    retrieval_mode, \* the fields of the tool
    max_chars,
    llm,
    file_path,
    start_line,
    line_count,
    eff,            \* _eff_max_chars_for_retrieval
    candidate,      \* Optional: eff_fp_candidate / website_url of this _run
    eff_fp,         \* Optional: the path or URL the acquisition uses
    acquisitions,   \* calls of open / requests.get made by this _run
    acquired,       \* "none", "ok", or the class of the acquisition's exception
    raw_text,       \* Optional: the text the acquisition read (full_content_for_processing,
                    \* text_content, or what f holds in full mode)
    dispatched,     \* the strategy _run called, "none" when it called none
    chosen,         \* selected_indices of the random-chunks call, if it selected
    prompt,         \* Optional: the prompt handed to llm.call
    attempt,        \* passes of the retry loop completed
    llm_log,        \* the responses of the llm.call calls of this _run, in order
    raw_summary,
    last_exception,
    fault,          \* Optional: the exception raised inside the try block
    output,         \* Optional: the envelope _run returned
    fn,             \* "none", "head" or "random_chunks": the strategy applied
    fn_content,     \* full_content handed to the strategy
    fn_max_chars,   \* max_chars / eff_max_chars handed to the strategy
    fn_selected,    \* selected_indices, when block selection is reached
    fn_result       \* Optional: the string the strategy returned

config_vars == << tool, retrieval_mode, max_chars, llm, file_path, start_line,
                  line_count, eff >>

call_vars == << candidate, eff_fp, acquisitions, acquired, raw_text, dispatched, chosen, prompt,
                attempt, llm_log, raw_summary, last_exception, fault, output >>

fn_vars == << fn, fn_content, fn_max_chars, fn_selected, fn_result >>

vars == << pc, config_vars, call_vars, fn_vars >>

\* No strategy applied on its own.
FnIdle ==
    /\ fn = "none"
    /\ fn_content = << >>
    /\ fn_max_chars = 0
    /\ fn_selected = {}
    /\ fn_result = None

\* No tool constructed.
ToolIdle ==
    /\ pc = "new"
    /\ tool = "none"
    /\ retrieval_mode = "full"
    /\ max_chars = None
    /\ llm = FALSE
    /\ file_path = None
    /\ start_line = 1
    /\ line_count = None
    /\ eff = None
    /\ candidate = None
    /\ eff_fp = None
    /\ acquisitions = 0
    /\ acquired = "none"
    /\ raw_text = None
    /\ dispatched = "none"
    /\ chosen = {}
    /\ prompt = None
    /\ attempt = 0
    /\ llm_log = << >>
    /\ raw_summary = << >>
    /\ last_exception = None
    /\ fault = None
    /\ output = None

Init == ToolIdle /\ FnIdle

-----------------------------------------------------------------------------
(* Construction *)

\* VersatileFileReadTool(...) / VersatileScrapeWebsiteTool(...): the field
\* constraints, then the model validator.
Construct ==
    /\ pc = "new"
    /\ \E t \in {"file", "web"} : \E c \in ConfigInputs(t) :
        /\ tool' = t
        /\ retrieval_mode' = c.retrieval_mode
        /\ max_chars' = c.max_chars
        /\ llm' = c.llm
        /\ file_path' = c.file_path
        /\ start_line' = c.start_line
        /\ line_count' = c.line_count
        /\ IF fields_valid(t, c.max_chars, c.start_line, c.line_count)
                /\ ~init_raises(c.retrieval_mode, c.max_chars, c.llm)
           THEN /\ pc' = "ready"
                /\ eff' = eff_max_chars(c.retrieval_mode, c.max_chars)
           ELSE /\ pc' = "config_error"
                /\ eff' = None
    /\ UNCHANGED << call_vars, fn_vars >>

-----------------------------------------------------------------------------
(* _run *)

\* The start of a _run: the locals of the previous one are gone.
Fresh ==
    /\ acquisitions' = 0
    /\ acquired' = "none"
    /\ raw_text' = None
    /\ dispatched' = "none"
    /\ chosen' = {}
    /\ prompt' = None
    /\ attempt' = 0
    /\ llm_log' = << >>
    /\ raw_summary' = << >>
    /\ last_exception' = None
    /\ fault' = None

\* _run ends with outcome o of run_outcome.
Ends(o) ==
    /\ pc' = o.pc
    /\ fault' = o.fault
    /\ output' = o.output

\* VersatileFileReadTool._run up to the try block.
RunFile ==
    /\ pc \in {"ready", "returned"}
    /\ tool = "file"
    /\ \E arg \in FileArgs :
        LET eff_fp_candidate == IF arg # None THEN arg ELSE file_path
        IN /\ candidate' = eff_fp_candidate
           /\ IF eff_fp_candidate = None \/ Strip(eff_fp_candidate[1]) = << >>
              THEN /\ pc' = "returned"
                   /\ eff_fp' = None
                   /\ output' = Some(Envelope(None,
                        Some(Words(<< "A", "file", "path", "must", "be", "provided",
                                      "either", "during", "tool", "initialization",
                                      "(as", "file_path)", "or", "at", "runtime." >>)),
                        IF eff_fp_candidate = None \/ eff_fp_candidate[1] = << >>
                            THEN Placeholder("No file path provided")
                            ELSE SourceOf(eff_fp_candidate[1]),
                        retrieval_mode))
              ELSE /\ pc' = "acquire"
                   /\ eff_fp' = Some(Strip(eff_fp_candidate[1]))
                   /\ output' = None
    /\ Fresh
    /\ UNCHANGED << config_vars, fn_vars >>

\* VersatileScrapeWebsiteTool._run up to the try block.
RunWeb ==
    /\ pc \in {"ready", "returned"}
    /\ tool = "web"
    /\ \E website_url \in WebArgs :
        /\ candidate' = Some(website_url)
        /\ IF Strip(website_url) = << >>
           THEN /\ pc' = "returned"
                /\ eff_fp' = None
                /\ output' = Some(Envelope(None,
                        Some(Words(<< "A", "non-empty", "website", "URL", "must", "be",
                                      "provided." >>)),
                        IF website_url = << >>
                            THEN Placeholder("Invalid (empty URL provided)")
                            ELSE SourceOf(website_url),
                        retrieval_mode))
           ELSE /\ pc' = "acquire"
                /\ eff_fp' = Some(website_url)
                /\ output' = None
    /\ Fresh
    /\ UNCHANGED << config_vars, fn_vars >>

\* The strategy call of _run in head, random_chunks and summarize mode on the
\* acquired text: _run ends, or the retry loop starts with the prompt built.
Dispatch(text) ==
    IF retrieval_mode = "head"
    THEN /\ dispatched' = "head"
         /\ chosen' = {}
         /\ prompt' = None
         /\ Ends(run_outcome(tool, retrieval_mode, eff_fp[1],
                    Return(_retrieve_head_content(text, eff[1]))))
    ELSE \E middle \in middle_choices(text, eff[1]) :
        /\ chosen' = IF chunks_path(text, eff[1]) = "selection"
                        THEN selected_indices(text, eff[1], middle) ELSE {}
        /\ IF retrieval_mode = "random_chunks"
           THEN /\ dispatched' = "random_chunks"
                /\ prompt' = None
                /\ Ends(run_outcome(tool, retrieval_mode, eff_fp[1],
                        Return(_retrieve_random_chunks_content(text, eff[1], middle))))
           ELSE LET p == summary_prompt(tool, llm, eff, text, middle)
                IN /\ dispatched' = "summarize"
                   /\ IF Raised(p)
                      THEN /\ prompt' = None
                           /\ Ends(run_outcome(tool, retrieval_mode, eff_fp[1], p))
                      ELSE /\ prompt' = Some(p.value)
                           /\ pc' = "llm"
                           /\ UNCHANGED << fault, output >>

\* The try block of VersatileFileReadTool._run up to its return or to the
\* first llm.call, and the except clauses.
AcquireFile ==
    /\ pc = "acquire"
    /\ tool = "file"
    /\ acquisitions' = acquisitions + 1
    /\ \E opened \in FileOutcomes :
        /\ acquired' = IF Raised(opened) THEN opened.exc[1].type ELSE "ok"
        /\ raw_text' = IF Raised(opened) THEN None ELSE Some(opened.value)
        /\ IF retrieval_mode = "full"
           THEN /\ dispatched' = "full"
                /\ chosen' = {}
                /\ prompt' = None
                /\ Ends(run_outcome(tool, retrieval_mode, eff_fp[1],
                        _retrieve_full_content(eff_fp[1], opened, start_line, line_count)))
           ELSE IF Raised(opened)
           THEN /\ dispatched' = "none"
                /\ chosen' = {}
                /\ prompt' = None
                /\ Ends(run_outcome(tool, retrieval_mode, eff_fp[1], opened))
           ELSE IF /\ retrieval_mode \in {"head", "random_chunks"}
                   /\ eff # None
                   /\ Len(opened.value) <= eff[1]
           THEN /\ dispatched' = "none"
                /\ chosen' = {}
                /\ prompt' = None
                /\ Ends(run_outcome(tool, retrieval_mode, eff_fp[1], Return(opened.value)))
           ELSE Dispatch(opened.value)
    /\ UNCHANGED << candidate, eff_fp, attempt, llm_log, raw_summary, last_exception,
                    config_vars, fn_vars >>

\* The try block of VersatileScrapeWebsiteTool._run up to its return or to the
\* first llm.call, and the except clauses.
AcquireWeb ==
    /\ pc = "acquire"
    /\ tool = "web"
    /\ acquisitions' = acquisitions + 1
    /\ \E fetched \in WebOutcomes :
        /\ acquired' = IF Raised(fetched) THEN fetched.exc[1].type ELSE "ok"
        /\ raw_text' = IF Raised(fetched) THEN None ELSE Some(fetched.value)
        /\ IF Raised(fetched)
           THEN /\ dispatched' = "none"
                /\ chosen' = {}
                /\ prompt' = None
                /\ Ends(run_outcome(tool, retrieval_mode, eff_fp[1], fetched))
           ELSE IF fetched.value = << >>
           THEN /\ dispatched' = "none"
                /\ chosen' = {}
                /\ prompt' = None
                /\ Ends(run_outcome(tool, retrieval_mode, eff_fp[1],
                        Return(no_text_content)))
           ELSE IF retrieval_mode = "full"
           THEN /\ dispatched' = "none"
                /\ chosen' = {}
                /\ prompt' = None
                /\ Ends(run_outcome(tool, retrieval_mode, eff_fp[1],
                        Return(fetched.value)))
           ELSE Dispatch(fetched.value)
    /\ UNCHANGED << candidate, eff_fp, attempt, llm_log, raw_summary, last_exception,
                    config_vars, fn_vars >>

\* One llm.call(prompt) of the retry loop and the loop body on its response;
\* on the last pass also the ValueError after the loop and its except clause.
LlmCall ==
    /\ pc = "llm"
    /\ \E resp \in LlmResponses :
        LET a == attempt_body(resp, raw_summary, last_exception)
        IN /\ llm_log' = Append(llm_log, resp)
           /\ attempt' = attempt + 1
           /\ raw_summary' = a.raw
           /\ last_exception' = a.last
           /\ IF a.done
              THEN Ends(run_outcome(tool, retrieval_mode, eff_fp[1], Return(a.summary)))
              ELSE IF loop_continues(attempt)
              THEN /\ pc' = "llm"
                   /\ UNCHANGED << fault, output >>
              ELSE Ends(run_outcome(tool, retrieval_mode, eff_fp[1],
                        Raise(summary_error(tool, a.raw, a.last))))
    /\ UNCHANGED << candidate, eff_fp, acquisitions, acquired, raw_text, dispatched,
                    chosen, prompt, config_vars, fn_vars >>

Next ==
    \/ Construct
    \/ RunFile
    \/ RunWeb
    \/ AcquireFile
    \/ AcquireWeb
    \/ LlmCall

Spec == Init /\ [][Next]_vars

-----------------------------------------------------------------------------
(* The pure strategies applied to drawn inputs *)

FnInit ==
    /\ ToolIdle
    /\ fn = "none"
    /\ fn_content \in {PlainText(n) : n \in TextLens}
    /\ fn_max_chars \in Budgets
    /\ fn_selected = {}
    /\ fn_result = None

\* _retrieve_head_content(fn_content, fn_max_chars)
ApplyHead ==
    /\ fn = "none"
    /\ fn' = "head"
    /\ fn_result' = Some(_retrieve_head_content(fn_content, fn_max_chars))
    /\ UNCHANGED << fn_content, fn_max_chars, fn_selected, pc, config_vars, call_vars >>

\* _retrieve_random_chunks_content(fn_content, fn_max_chars)
ApplyRandomChunks ==
    /\ fn = "none"
    /\ \E middle \in middle_choices(fn_content, fn_max_chars) :
        /\ fn_selected' =
            IF chunks_path(fn_content, fn_max_chars) = "selection"
                THEN selected_indices(fn_content, fn_max_chars, middle)
                ELSE {}
        /\ fn_result' = Some(_retrieve_random_chunks_content(
                                fn_content, fn_max_chars, middle))
    /\ fn' = "random_chunks"
    /\ UNCHANGED << fn_content, fn_max_chars, pc, config_vars, call_vars >>

FnNext == ApplyHead \/ ApplyRandomChunks

SpecFn == FnInit /\ [][FnNext]_vars

-----------------------------------------------------------------------------
(* Properties *)

Content == output[1].content

ErrorMessage == output[1].error_message

\* C1: every _run of either tool returns an envelope with exactly one of
\* content (read_content / scraped_content) and error_message set.
C1_ExactlyOneOfContentAndError ==
    /\ pc = "returned" => IsSome(output)
    /\ IsSome(output) => (IsSome(Content) # IsSome(ErrorMessage))

C1_Witness ==
    /\ pc = "returned"
    /\ tool = "web"
    /\ retrieval_mode = "summarize"
    /\ Len(llm_log) = 2
    /\ IsSome(Content)
    /\ ErrorMessage = None

\* C2: no failure leaves _run as an exception: whenever the acquisition or the
\* strategy raised, _run has returned an envelope with error_message set.
C2_FailuresReturnErrorEnvelope ==
    /\ pc # "raised"
    /\ (IsSome(fault) \/ acquired \notin {"none", "ok"}) =>
        /\ pc = "returned"
        /\ IsSome(output)
        /\ IsSome(ErrorMessage)
        /\ Content = None

C2_Witness ==
    /\ pc = "returned"
    /\ IsSome(fault)
    /\ fault[1].type = "RuntimeError"
    /\ acquired = "PermissionError"
    /\ IsSome(ErrorMessage)

\* "not found" in a message, whatever the case of its letters.
ContainsNotFound(msg) ==
    \E i \in 1..(Len(msg) - 1) :
        /\ msg[i].w \in {"not", "Not", "NOT"}
        /\ msg[i + 1].w \in {"found", "Found", "FOUND", "found.", "found:"}

\* C3: in every mode of the file tool, a path that does not exist gives an
\* envelope without read_content whose error_message is the not-found message.
C3_MissingFileGivesNotFoundMessage ==
    (tool = "file" /\ acquired = "FileNotFoundError") =>
        /\ pc = "returned"
        /\ Content = None
        /\ IsSome(ErrorMessage)
        /\ ContainsNotFound(ErrorMessage[1])
        /\ ErrorMessage[1][1].w \notin {"Unexpected", "Processing"}

\* C4: the string random chunks returns is never longer than a positive budget.
C4_RandomChunksWithinBudget ==
    (fn = "random_chunks" /\ fn_max_chars > 0) => Len(fn_result[1]) <= fn_max_chars

C4_Witness ==
    /\ fn = "random_chunks"
    /\ chunks_path(fn_content, fn_max_chars) = "selection"
    /\ Cardinality(fn_selected) >= 3
    /\ Len(fn_result[1]) = fn_max_chars

\* C5: when random chunks reaches block selection with a positive budget, the
\* selected indices hold block 0 and, when more than one block is wanted and
\* the text has more than one block, the last block.
C5_SelectionHoldsFirstAndLast ==
    (/\ fn = "random_chunks"
     /\ fn_max_chars > 0
     /\ chunks_path(fn_content, fn_max_chars) = "selection") =>
        /\ 0 \in fn_selected
        /\ (num_blocks_select(fn_max_chars) > 1 /\ Len(all_blocks(fn_content)) > 1) =>
                (Len(all_blocks(fn_content)) - 1) \in fn_selected

C5_Witness ==
    /\ fn = "random_chunks"
    /\ chunks_path(fn_content, fn_max_chars) = "selection"
    /\ num_blocks_select(fn_max_chars) = 3
    /\ fn_selected = {0, 2, Len(all_blocks(fn_content)) - 1}
    /\ Len(all_blocks(fn_content)) >= 5

\* The first block of a text: its first min(1000, len) characters.
Block0(text) ==
    SubSeq(text, 1, Min(_TOOL_FILE_RANDOM_CHUNKS_BLOCK_SIZE, Len(text)))

StartsWith(s, prefix) ==
    Len(s) >= Len(prefix) /\ SubSeq(s, 1, Len(prefix)) = prefix

\* The context the prompt carries after the template.
ContextOf(p) ==
    SubSeq(p, Len(summary_prompt_template(tool)) + (IF tool = "web" THEN 2 ELSE 1), Len(p))

\* C6: with the budgets the constructor computes, what random chunks returns
\* for a non-empty text starts with the whole of block 0: as the content of
\* random_chunks mode and as the context of summarize mode.
C6_RandomChunksStartsWithBlock0 ==
    /\ (/\ pc = "returned"
        /\ retrieval_mode = "random_chunks"
        /\ acquired = "ok"
        /\ raw_text[1] # << >>) =>
            (IsSome(Content) /\ StartsWith(Content[1], Block0(raw_text[1])))
    /\ (retrieval_mode = "summarize" /\ IsSome(prompt)) =>
            StartsWith(ContextOf(prompt[1]), Block0(raw_text[1]))

C6_Witness ==
    /\ pc = "returned"
    /\ retrieval_mode = "random_chunks"
    /\ dispatched = "random_chunks"
    /\ Cardinality(chosen) = 3
    /\ Len(all_blocks(raw_text[1])) = 5
    /\ StartsWith(Content[1], Block0(raw_text[1]))
    /\ Content[1] # raw_text[1]

\* C7: with a budget of at least the length of the text, head and random
\* chunks both return the text as it is.
C7_FittingTextUnchanged ==
    (fn # "none" /\ fn_max_chars >= Len(fn_content)) => fn_result[1] = fn_content

C7_Witness ==
    /\ fn = "random_chunks"
    /\ fn_max_chars = Len(fn_content)
    /\ Len(fn_content) > _TOOL_FILE_RANDOM_CHUNKS_BLOCK_SIZE
    /\ fn_result[1] = fn_content

\* C8: for a positive budget, head returns the leading min(len(text), budget)
\* characters of the text.
C8_HeadIsLeadingSlice ==
    (fn = "head" /\ fn_max_chars > 0) =>
        /\ fn_result[1] = SubSeq(fn_content, 1, Min(Len(fn_content), fn_max_chars))
        /\ Len(fn_result[1]) <= fn_max_chars

C8_Witness ==
    /\ fn = "head"
    /\ fn_max_chars > 0
    /\ Len(fn_content) > fn_max_chars
    /\ Len(fn_result[1]) = fn_max_chars

IsFailure(resp) ==
    resp.kind # "str" \/ Len(Strip(resp.body)) < _TOOL_FILE_SUMMARY_MIN_VALID_LENGTH

IsSummarizationError(e) ==
    e.type = "ValueError" /\ Len(e.msg) >= 2 /\ e.msg[1] = W("LLM") /\ e.msg[2] = W("failed")

\* C10: when every response is a failure the summarizer calls llm.call exactly
\* 3 times and then fails with the summarization error: it does not fail on
\* fewer calls and makes no fourth.
C10_ThreeFailuresThenError ==
    /\ Len(llm_log) <= 3
    /\ pc = "llm" => Len(llm_log) < 3
    /\ (/\ pc = "returned"
        /\ IsSome(prompt)
        /\ \A i \in 1..Len(llm_log) : IsFailure(llm_log[i])) =>
            /\ Len(llm_log) = 3
            /\ IsSome(fault)
            /\ IsSummarizationError(fault[1])
    /\ (IsSome(fault) /\ IsSummarizationError(fault[1])) =>
            /\ Len(llm_log) = 3
            /\ \A i \in 1..3 : IsFailure(llm_log[i])

C10_Witness ==
    /\ pc = "returned"
    /\ Len(llm_log) = 3
    /\ \A i \in 1..3 : llm_log[i].kind = "str" /\ Len(Strip(llm_log[i].body)) = 50
    /\ IsSome(fault)
    /\ IsSummarizationError(fault[1])
    /\ IsSome(ErrorMessage)

\* C11: when the first response of llm.call is a str of at least 100 characters
\* once stripped (150 among them), that one call is the only one and _run
\* returns the stripped response cut to 6000 characters, of length 100..6000.
C11_FirstValidResponseReturned ==
    (/\ Len(llm_log) >= 1
     /\ llm_log[1].kind = "str"
     /\ Len(Strip(llm_log[1].body)) >= _TOOL_FILE_SUMMARY_MIN_VALID_LENGTH) =>
        /\ Len(llm_log) = 1
        /\ pc = "returned"
        /\ fault = None
        /\ Content = Some(SubSeq(Strip(llm_log[1].body), 1,
                Min(Len(Strip(llm_log[1].body)), _TOOL_FILE_SUMMARY_MODE_TARGET_LENGTH)))
        /\ Len(Content[1]) >= _TOOL_FILE_SUMMARY_MIN_VALID_LENGTH
        /\ Len(Content[1]) <= _TOOL_FILE_SUMMARY_MODE_TARGET_LENGTH

C11_Witness ==
    /\ pc = "returned"
    /\ Len(llm_log) = 1
    /\ llm_log[1].kind = "str"
    /\ Len(llm_log[1].body) > 150
    /\ Len(Strip(llm_log[1].body)) = 150
    /\ Len(Content[1]) = 150

\* The message of the ValueError raised for a blank context.
IsEmptyContentMessage(msg) ==
    \E i \in 1..(Len(msg) - 2) :
        msg[i] = W("No") /\ msg[i + 1] = W("content") /\ msg[i + 2] = W("extracted")

\* C12 as stated: in summarize mode of either tool, an acquired text that is
\* empty or only whitespace gives an envelope with the empty-content error and
\* no content, and llm.call is never made.
C12_BlankTextFailsWithoutLlmCall ==
    (/\ retrieval_mode = "summarize"
     /\ acquired = "ok"
     /\ Strip(raw_text[1]) = << >>) =>
        /\ pc = "returned"
        /\ Content = None
        /\ IsSome(ErrorMessage)
        /\ IsEmptyContentMessage(ErrorMessage[1])
        /\ llm_log = << >>

\* C12 amended: in summarize mode llm.call is never made for an empty text, nor
\* for a whitespace-only file that fits the effective budget.  The file tool
\* then returns the empty-content error without content; the web tool, whose
\* cleaned text is never only whitespace, returns the empty page as the
\* placeholder content without error_message.  A whitespace-only file longer
\* than the effective budget is sampled, its context holds the "..." joints,
\* and the prompt goes to llm.call.
C12_BlankTextInSummarizeMode ==
    (/\ retrieval_mode = "summarize"
     /\ acquired = "ok"
     /\ Strip(raw_text[1]) = << >>) =>
        /\ (tool = "file" /\ Len(raw_text[1]) <= eff[1]) =>
                /\ pc = "returned"
                /\ Content = None
                /\ IsSome(ErrorMessage)
                /\ IsEmptyContentMessage(ErrorMessage[1])
                /\ llm_log = << >>
        /\ tool = "web" =>
                /\ raw_text[1] = << >>
                /\ pc = "returned"
                /\ Content = Some(no_text_content)
                /\ ErrorMessage = None
                /\ llm_log = << >>
        /\ (tool = "file" /\ Len(raw_text[1]) > eff[1]) =>
                /\ IsSome(prompt)
                /\ pc = "llm" \/ Len(llm_log) >= 1

C12_Witness ==
    /\ tool = "file"
    /\ retrieval_mode = "summarize"
    /\ acquired = "ok"
    /\ Len(raw_text[1]) = 1
    /\ Strip(raw_text[1]) = << >>
    /\ pc = "returned"
    /\ IsEmptyContentMessage(ErrorMessage[1])
    /\ llm_log = << >>

\* C13: with a budget that is absent or positive (and a line range the fields
\* accept), construction fails exactly when head or random_chunks mode has no
\* budget or summarize mode has no generator; nothing is acquired before or
\* without a successful construction.
C13_ConstructionFailsExactlyOnMissingNeed ==
    /\ (/\ pc # "new"
        /\ (max_chars = None \/ max_chars[1] >= 1)
        /\ start_line >= 1
        /\ (line_count = None \/ line_count[1] >= 1)) =>
            (pc = "config_error" <=>
                \/ retrieval_mode \in {"head", "random_chunks"} /\ max_chars = None
                \/ retrieval_mode = "summarize" /\ ~llm)
    /\ pc \in {"new", "config_error"} =>
            /\ candidate = None
            /\ acquired = "none"
            /\ llm_log = << >>
            /\ output = None

C13_Witness ==
    /\ pc = "config_error"
    /\ tool = "web"
    /\ retrieval_mode = "summarize"
    /\ ~llm
    /\ max_chars = None
    /\ acquired = "none"

\* C15 as stated: no constructed tool holds a budget below 1, so head never
\* runs with a budget of 0 or less.
C15_BudgetIsPositive ==
    /\ pc \notin {"new", "config_error"} => (max_chars = None \/ max_chars[1] >= 1)
    /\ dispatched = "head" => eff[1] >= 1

\* The envelope carries the error of a line range out of bounds.
IsRangeError ==
    /\ Content = None
    /\ IsSome(ErrorMessage)
    /\ IsSome(fault)
    /\ fault[1].type = "ValueError"
    /\ ErrorMessage[1][1] = W("Processing")

\* C14: full mode of the file tool on a file of n lines, from start_line s,
\* for line_count c: the whole content for s = 1 without c; "" for n = 0 and
\* s = 1; a range error for n = 0 and s > 1, and for n > 0 and s > n; else
\* lines s .. min(n, s + c - 1) (s .. n without c), each with its line ending.
C14_LineRange ==
    (/\ tool = "file"
     /\ retrieval_mode = "full"
     /\ acquired = "ok"
     /\ pc = "returned") =>
        LET ls == Lines(raw_text[1])
            n == Len(ls)
            s == start_line
            last == IF line_count = None THEN n ELSE Min(n, s + line_count[1] - 1)
        IN IF s = 1 /\ line_count = None THEN Content = raw_text
           ELSE IF n = 0 THEN (IF s = 1 THEN Content = Some(<< >>) ELSE IsRangeError)
           ELSE IF s > n THEN IsRangeError
           ELSE /\ ErrorMessage = None
                /\ Content = Some(Join(<< >>, SubSeq(ls, s, last)))

C14_Witness ==
    /\ tool = "file"
    /\ retrieval_mode = "full"
    /\ acquired = "ok"
    /\ pc = "returned"
    /\ start_line = 2
    /\ line_count = Some(1)
    /\ Len(Lines(raw_text[1])) = 3
    /\ Content = Some(Lines(raw_text[1])[2])

\* C16: a _run makes at most one acquisition; llm.call is made only in
\* summarize mode, only after the acquisition returned a text, at most 3 times,
\* and never after a response that was accepted; the retry loop is waiting
\* for a response only while every response so far was a failure.
C16_ExternalCallsOrderedAndBounded ==
    /\ acquisitions <= 1
    /\ acquired # "none" => acquisitions = 1
    /\ Len(llm_log) <= 3
    /\ llm_log # << >> =>
            /\ retrieval_mode = "summarize"
            /\ acquisitions = 1
            /\ acquired = "ok"
    /\ \A i \in 1..(Len(llm_log) - 1) : IsFailure(llm_log[i])
    /\ pc = "llm" =>
            /\ retrieval_mode = "summarize"
            /\ acquired = "ok"
            /\ \A i \in 1..Len(llm_log) : IsFailure(llm_log[i])
    /\ acquired \notin {"none", "ok"} => (llm_log = << >> /\ pc = "returned")

C16_Witness ==
    /\ pc = "returned"
    /\ acquisitions = 1
    /\ Len(llm_log) = 3
    /\ IsFailure(llm_log[1])
    /\ IsFailure(llm_log[2])
    /\ ~IsFailure(llm_log[3])
    /\ IsSome(Content)

\* What a response that is no valid summary leaves in raw_summary.
RawRecorded(resp) == IF resp.kind = "str" THEN Strip(resp.body) ELSE resp.body

FirstChars(raw) == SubSeq(raw, 1, Min(Len(raw), 200))

\* The message has a raw-output part.
HasOutputPart(msg) == \E i \in 1..Len(msg) : msg[i] = W("output")

\* The message has a raw-output part that quotes the first 200 characters of raw.
ReportsOutput(msg, raw) ==
    \E i \in 2..(Len(msg) - 1) :
        /\ msg[i - 1] = W("'")
        /\ msg[i] = S(FirstChars(raw))
        /\ msg[i + 1] = W("...'")

HasExceptionPart(msg) == \E i \in 1..Len(msg) : msg[i] = W("exception:")

\* The message ends with an exception part naming e's class and str(e).
ReportsException(msg, e) ==
    \E i \in 2..(Len(msg) - 2) :
        /\ msg[i - 1] = W("Last")
        /\ msg[i] = W("exception:")
        /\ msg[i + 1] = W(e.type)
        /\ msg[i + 2] = W("-")
        /\ SubSeq(msg, i + 3, Len(msg)) = e.msg

OutputAttempts == {i \in 1..Len(llm_log) : llm_log[i].kind # "raise"}

RaisingAttempts == {i \in 1..Len(llm_log) : llm_log[i].kind = "raise"}

Latest(attempts_of_kind) == CHOOSE i \in attempts_of_kind : \A j \in attempts_of_kind : j <= i

EndsWithMarker(s) ==
    Len(s) >= Len(Ellipsis) /\ SubSeq(s, Len(s) - Len(Ellipsis) + 1, Len(s)) = Ellipsis

\* Characters of block i of the text: 1000, less for a short last block.
BlockLen(text, i) ==
    Min(_TOOL_FILE_RANDOM_CHUNKS_BLOCK_SIZE,
        Len(text) - i * _TOOL_FILE_RANDOM_CHUNKS_BLOCK_SIZE)

\* Length of the selected blocks joined by "..." with the marker appended,
\* before any truncation.
MarkedLen(text, selected) ==
    LET n == Cardinality(selected)
        last == Len(all_blocks(text)) - 1
    IN n * _TOOL_FILE_RANDOM_CHUNKS_BLOCK_SIZE
        - (IF last \in selected
            THEN _TOOL_FILE_RANDOM_CHUNKS_BLOCK_SIZE - BlockLen(text, last) ELSE 0)
        + (n - 1) * Len(Ellipsis) + Len(Ellipsis)

OmitsABlock ==
    /\ fn = "random_chunks"
    /\ fn_max_chars > 0
    /\ chunks_path(fn_content, fn_max_chars) = "selection"

\* C18 as stated: whenever random chunks omits a block, the excerpt it
\* returns ends with the "..." marker.
C18_MarkerSurvivesTruncation ==
    OmitsABlock => EndsWithMarker(fn_result[1])

\* C18, amended: when random chunks omits a block the marker is appended
\* before the truncation, so the excerpt ends with it exactly when the selected
\* blocks, their separators and the marker together fit the budget; otherwise
\* the excerpt is cut to the budget and does not end with the marker.
C18_MarkerSurvivesWhenItFits ==
    OmitsABlock =>
        LET marked == MarkedLen(fn_content, fn_selected)
        IN /\ Cardinality(fn_selected) = num_blocks_select(fn_max_chars)
           /\ marked <= fn_max_chars =>
                (EndsWithMarker(fn_result[1]) /\ Len(fn_result[1]) = marked)
           /\ marked > fn_max_chars =>
                (~EndsWithMarker(fn_result[1]) /\ Len(fn_result[1]) = fn_max_chars)

\* A short last block leaves room for the marker.
C18_Witness ==
    /\ OmitsABlock
    /\ num_blocks_select(fn_max_chars) = 3
    /\ Len(all_blocks(fn_content)) = 5
    /\ EndsWithMarker(fn_result[1])
    /\ Len(fn_result[1]) < fn_max_chars

====
